---- MODULE Spec2Model ----
(***************************************************************************)
(* Model of the Nautilus AUV control core.                                 *)
(*                                                                         *)
(*   src/auv/auv.py            AUV.main_loop, run_motors, start_mission,   *)
(*                             abort_mission (the main control loop)       *)
(*   src/auv/auv_send_ping.py  AUV_Send_Ping.run (the ping-sending thread) *)
(*                                                                         *)
(* Time is measured in whole seconds.  The only use the code makes of the  *)
(* clock is the comparison  time.time() - time_since_last_ping >           *)
(* CONNECTION_TIMEOUT, so the model keeps that difference ("elapsed"),     *)
(* saturated one above the timeout.                                        *)
(*                                                                         *)
(* Collaborators (api.Radio, api.MotorController, api.PressureSensor,      *)
(* missions.Mission1) are not part of the sources.  Following the          *)
(* RadioLink contract, opening, writing and reading the radio may fail,    *)
(* while flush, is_open and close do not; setting motor speeds does not    *)
(* fail; the pressure sensor's read, the Mission1 constructor and the      *)
(* mission hooks loop() and abort_loop() may raise.  The IMU readings of   *)
(* lines 187-208 are computed and never used, and are left out.            *)
(*                                                                         *)
(* A position of a thread names the call it is in; the action that leaves  *)
(* the position is the completion of that call.  "calls" lists, in order,  *)
(* the collaborator calls made by the latest step of the main loop.        *)
(***************************************************************************)
EXTENDS Integers, Sequences, FiniteSets, TLC

VARIABLES
    pc,               \* position of the main loop (see the actions)
    radio,            \* AUV.radio: "None" or "Open"
    pressure_sensor,  \* AUV.pressure_sensor is not None
    connected_to_bs,  \* AUV.connected_to_bs
    elapsed,          \* time.time() - AUV.time_since_last_ping, saturated
    current_mission,  \* AUV.current_mission: None, or the mission instance
    timer,            \* AUV.timer
    created,          \* number of Mission1 instances constructed so far
    speeds,           \* motor speeds last given to the motor controller
    line,             \* the frame last returned by radio.read(3)
    nav,              \* (x, y) last decoded from a navigation frame
    calls,            \* collaborator calls made by the latest main-loop step
    script,           \* commands the base station sends (scripted runs)
    sidx,             \* index of the next command of the script
    ppc,              \* position of the ping-sending thread
    pradio,           \* AUV_Send_Ping.radio: "None" or "Open"
    radio_lock,       \* holder of radio_lock: "free", "main" or "ping"
    ev,               \* AUV_Send_Ping._ev is set
    stop_all_threads, \* global_vars.stop_all_threads
    gv_radio,         \* global_vars.radio: None, or the candidate it is open on
    local_radio,      \* connect_to_radio's local name radio: unbound (None),
                      \* or the candidate it is open on
    rp,               \* connect_to_radio: index of the next candidate path
    openable,         \* the candidates on which Radio(path) succeeds
    tried             \* the candidates Radio(path) was called on, in order

mainVars == <<pc, radio, pressure_sensor, connected_to_bs, elapsed,
              current_mission, timer, created, speeds, line, nav, calls>>
scriptVars == <<script, sidx>>
pingVars == <<ppc, pradio, radio_lock, ev, stop_all_threads>>
discVars == <<gv_radio, local_radio, rp, openable, tried>>
vars == <<mainVars, scriptVars, discVars, pingVars, discVars>>

(***************************************************************************)
(* Program constants.                                                      *)
(***************************************************************************)
CONNECTION_TIMEOUT == 3
THREAD_SLEEP_DELAY_MS == 50
MANEUVER_SLEEP == 5
PING_FRAME == 16777215
NAV_BIT == 131072
NAV_X_MASK == 128512
NAV_SIGN_MASK == 256
NAV_Y_MASK == 255
MISSION_MASK == 3
HEARTBEAT == 255

(***************************************************************************)
(* Bounds of the model.  MAX_TIME is 600 in the source; the model scales   *)
(* it down so that the iteration budget is reached.                        *)
(***************************************************************************)
MAX_TIME == 1
MaxMissions == 2

None == 0
NoLine == 0 - 1
ElapsedCap == CONNECTION_TIMEOUT + 1

Min(a, b) == IF a < b THEN a ELSE b
Abs(a) == IF a < 0 THEN 0 - a ELSE a

RECURSIVE BitAnd(_, _)
BitAnd(a, b) ==
    IF a = 0 \/ b = 0 THEN 0
    ELSE (a % 2) * (b % 2) + 2 * BitAnd(a \div 2, b \div 2)

Call(op, arg) == [op |-> op, arg |-> arg]
ZeroSpeeds == <<0, 0, 0, 0>>

(***************************************************************************)
(* The base station's commands and their frames (wire layout).             *)
(***************************************************************************)
PingCmd == <<"ping", 0, 0>>
NoCmd == <<"none", 0, 0>>
NavCmd(x, y) == <<"nav", x, y>>
MissionCmd(id) == <<"mission", id, 0>>

NavEncode(x, y) ==
    NAV_BIT + x * 512 + (IF y < 0 THEN 256 ELSE 0) + Abs(y)

Encode(cmd) ==
    CASE cmd[1] = "ping" -> PING_FRAME
      [] cmd[1] = "nav" -> NavEncode(cmd[2], cmd[3])
      [] cmd[1] = "mission" -> cmd[2]
      [] OTHER -> NoLine

NavCommands == {NavCmd(10, 0 - 30), NavCmd(0, 5), NavCmd(4, 0)}
MissionCommands == {MissionCmd(0), MissionCmd(1)}
Commands == {PingCmd} \cup NavCommands \cup MissionCommands

(***************************************************************************)
(* Decoding, as the main loop does it.                                     *)
(***************************************************************************)
IsPing(m) == m = PING_FRAME
IsNavigation(m) == BitAnd(m, NAV_BIT) > 0
DecodeX(m) == BitAnd(m, NAV_X_MASK) \div 512
DecodeSign(m) == BitAnd(m, NAV_SIGN_MASK) \div 256
DecodeY(m) ==
    IF DecodeSign(m) = 1 THEN BitAnd(m, NAV_Y_MASK) * (0 - 1)
    ELSE BitAnd(m, NAV_Y_MASK)
\* Faulty variant: the mission id is taken with the wrong mask.
DecodeMissionWrongMask(m) == BitAnd(m, 2)
DecodeMission(m) == BitAnd(m, MISSION_MASK)

(***************************************************************************)
(* MAX_ITERATION_COUNT = MAX_TIME / THREAD_SLEEP_DELAY / 7, and the test   *)
(* timer > MAX_ITERATION_COUNT, in integer arithmetic.                     *)
(***************************************************************************)
\* Faulty variant: the budget test is one iteration late.
ExceedsBudgetLate(t) == (t - 1) * 7 * THREAD_SLEEP_DELAY_MS > MAX_TIME * 1000

ExceedsBudget(t) == t * 7 * THREAD_SLEEP_DELAY_MS > MAX_TIME * 1000

is_open(r) == r = "Open"

(***************************************************************************)
(* Telemetry: the depth frame built from a pressure reading.  Pressure is  *)
(* in hundredths of a millibar, so that                                    *)
(*   (pressure - 1013.25) / 1000 * 10.2 = (p - 101325) * 102 / 1000000.    *)
(***************************************************************************)
DEPTH_DATA == 23
DEPTH_ENCODE == DEPTH_DATA * 2048
Pressures == {101325, 150000}

BitOr(a, b) == a + b - BitAnd(a, b)
DepthMicro(p) ==
    IF (p - 101325) * 102 < 0 THEN 0 ELSE (p - 101325) * 102
DepthInt(p) == DepthMicro(p) \div 1000000
DepthFrac(p) == ((DepthMicro(p) % 1000000) + 50000) \div 100000
DepthFrame(p) == BitOr(BitOr(DEPTH_ENCODE, DepthInt(p) * 16), DepthFrac(p))

(***************************************************************************)
(* State after the AUV constructor: each peripheral is either found or     *)
(* not; nothing has been received yet.                                     *)
(***************************************************************************)
PingIdle ==
    /\ ppc = "unstarted"
    /\ pradio = "None"
    /\ radio_lock = "free"
    /\ ev = FALSE
    /\ stop_all_threads = FALSE

\* global_vars.py, line 14, before connect_to_radio is called.
DiscoveryIdle ==
    /\ gv_radio = None
    /\ local_radio = None
    /\ rp = 1
    /\ openable = {}
    /\ tried = <<>>

MainInit ==
    /\ pc = "check"
    /\ radio \in {"None", "Open"}
    /\ pressure_sensor \in BOOLEAN
    /\ connected_to_bs = FALSE
    /\ elapsed = ElapsedCap
    /\ current_mission = None
    /\ timer = 0
    /\ created = 0
    /\ speeds = ZeroSpeeds
    /\ line = NoLine
    /\ nav = <<0, 0>>
    /\ calls = <<>>

Init ==
    /\ MainInit
    /\ script = <<>>
    /\ sidx = 1
    /\ PingIdle
    /\ DiscoveryIdle

(***************************************************************************)
(* main_loop, lines 143-157: the connection check of every iteration.      *)
(***************************************************************************)
\* Faulty variant: the connection-loss path forgets to flush the link.
LossCallsNoFlush(r) == <<Call("mc", ZeroSpeeds)>>

LossCalls(r) ==
    <<Call("mc", ZeroSpeeds)>>
        \o (IF r # "None" THEN <<Call("flush", <<>>)>> ELSE <<>>)

\* Faulty variant: the timeout test is off by one (>= for >).
TimedOutEarly == elapsed >= CONNECTION_TIMEOUT

TimedOut == elapsed > CONNECTION_TIMEOUT

CheckConnection ==
    /\ pc = "check"
    /\ IF TimedOut /\ connected_to_bs
       THEN /\ speeds' = ZeroSpeeds
            /\ calls' = LossCalls(radio)
            /\ connected_to_bs' = FALSE
       ELSE /\ calls' = <<>>
            /\ UNCHANGED <<speeds, connected_to_bs>>
    /\ pc' = "link"
    /\ UNCHANGED <<radio, pressure_sensor, elapsed, current_mission, timer,
                   created, line, nav, scriptVars, pingVars, discVars>>

(***************************************************************************)
(* main_loop, lines 159-164: without an open radio, one attempt to open    *)
(* it; a failure is swallowed.  Then on to the mission section.            *)
(***************************************************************************)
Reconnect ==
    /\ pc = "link"
    /\ radio = "None" \/ ~is_open(radio)
    /\ \E ok \in BOOLEAN : radio' = IF ok THEN "Open" ELSE radio
    /\ calls' = <<Call("open", <<>>)>>
    /\ pc' = "mission"
    /\ UNCHANGED <<pressure_sensor, connected_to_bs, elapsed, current_mission,
                   timer, created, speeds, line, nav, scriptVars, pingVars, discVars>>

EnterSession ==
    /\ pc = "link"
    /\ ~(radio = "None" \/ ~is_open(radio))
    /\ calls' = <<Call("is_open", <<>>)>>
    /\ pc' = "write"
    /\ UNCHANGED <<radio, pressure_sensor, connected_to_bs, elapsed,
                   current_mission, timer, created, speeds, line, nav,
                   scriptVars, pingVars, discVars>>

(***************************************************************************)
(* main_loop, lines 310-315: the handler of any exception raised between   *)
(* lines 166 and 308 closes and drops the radio and starts the next        *)
(* iteration (continue).                                                   *)
(***************************************************************************)
\* Faulty variant: the handler closes the radio but keeps the handle.
RadioExceptionKeepsHandle(done) ==
    /\ calls' = done \o <<Call("close", <<>>)>>
    /\ radio' = radio
    /\ pc' = "check"

\* Faulty variant: the handler also stops the motors.
RadioExceptionStopsMotors(done) ==
    /\ calls' = done \o <<Call("mc", ZeroSpeeds), Call("close", <<>>)>>
    /\ radio' = "None"
    /\ pc' = "check"

RadioException(done) ==
    /\ calls' = done \o <<Call("close", <<>>)>>
    /\ radio' = "None"
    /\ pc' = "check"

(***************************************************************************)
(* main_loop, lines 166-231: the heartbeat byte, and when connected the    *)
(* depth frame.                                                            *)
(***************************************************************************)
Heartbeat == Call("write", <<HEARTBEAT, 1>>)
Telemetry(p) == Call("write", <<DepthFrame(p), 2>>)
SensorRead == Call("sensor", <<>>)
Reading(p) == Call("sensor", <<p>>)
\* Faulty variant: telemetry is sent whether or not the AUV is connected.
SendsTelemetryAlways == pressure_sensor

SendsTelemetry == connected_to_bs /\ pressure_sensor

\* "sensor" with no value is a pressure read that raised; with a value, the
\* reading the depth frame is built from.
TransmitFrom(readings) ==
    /\ pc = "write"
    /\ \/ RadioException(<<Heartbeat>>)
       \/ /\ SendsTelemetry
          /\ RadioException(<<Heartbeat, SensorRead>>)
       \/ /\ SendsTelemetry
          /\ \E p \in readings :
                RadioException(<<Heartbeat, Reading(p), Telemetry(p)>>)
       \/ /\ SendsTelemetry
          /\ \E p \in readings :
                calls' = <<Heartbeat, Reading(p), Telemetry(p)>>
          /\ pc' = "read"
          /\ UNCHANGED radio
       \/ /\ ~SendsTelemetry
          /\ calls' = <<Heartbeat>>
          /\ pc' = "read"
          /\ UNCHANGED radio
    /\ UNCHANGED <<pressure_sensor, connected_to_bs, elapsed, current_mission,
                   timer, created, speeds, line, nav, scriptVars, pingVars, discVars>>

Transmit == TransmitFrom(Pressures)

(***************************************************************************)
(* main_loop, lines 236-240 and 305-308: radio.read(3).  A full frame      *)
(* enters the loop body; an empty or short read ends the loop, which is    *)
(* followed by radio.flush(); an exception goes to the handler.            *)
(***************************************************************************)
ReadResult(cmd) ==
    IF cmd = NoCmd
    THEN /\ line' = NoLine
         /\ calls' = <<Call("read", <<>>), Call("flush", <<>>)>>
         /\ pc' = "mission"
         /\ UNCHANGED radio
    ELSE /\ line' = Encode(cmd)
         /\ calls' = <<Call("read", <<>>)>>
         /\ pc' = "process"
         /\ UNCHANGED radio

ReadError ==
    /\ RadioException(<<Call("read", <<>>)>>)
    /\ UNCHANGED line

Deliverable(cmd) == cmd = MissionCmd(0) => created < MaxMissions

Read ==
    /\ pc = "read"
    /\ \/ \E cmd \in Commands \cup {NoCmd} :
             Deliverable(cmd) /\ ReadResult(cmd)
       \/ ReadError
    /\ UNCHANGED <<pressure_sensor, connected_to_bs, elapsed, current_mission,
                   timer, created, speeds, nav, scriptVars, pingVars, discVars>>

(***************************************************************************)
(* main_loop, lines 242-250: a ping frame.                                 *)
(***************************************************************************)
TestSpeeds == <<1, 2, 3, 4>>

ProcessPing ==
    /\ pc = "process"
    /\ IsPing(line)
    /\ elapsed' = 0
    /\ IF connected_to_bs = FALSE
       THEN /\ connected_to_bs' = TRUE
            /\ speeds' = TestSpeeds
            /\ calls' = <<Call("log", <<1>>), Call("mc", TestSpeeds)>>
       ELSE /\ calls' = <<>>
            /\ UNCHANGED <<connected_to_bs, speeds>>
    /\ pc' = "read"
    /\ UNCHANGED <<radio, pressure_sensor, current_mission, timer, created,
                   line, nav, scriptVars, pingVars, discVars>>

(***************************************************************************)
(* run_motors, lines 104-135: the motor commands and sleeps of a maneuver. *)
(***************************************************************************)
TurnSpeed(y) == IF y > 0 THEN 90 ELSE IF y < 0 THEN 0 - 90 ELSE 0

\* Faulty variant: no stop between the turn and the forward motion.
run_motors_no_stop(x, y) ==
    <<Call("mc", ZeroSpeeds),
      Call("mc", <<0, TurnSpeed(y), 0, 0>>),
      Call("sleep", <<MANEUVER_SLEEP>>)>>
    \o (IF x # 0
        THEN <<Call("mc", <<90, 0, 0, 0>>), Call("sleep", <<MANEUVER_SLEEP>>)>>
        ELSE <<>>)
    \o <<Call("mc", ZeroSpeeds)>>

run_motors(x, y) ==
    <<Call("mc", ZeroSpeeds),
      Call("mc", <<0, TurnSpeed(y), 0, 0>>),
      Call("sleep", <<MANEUVER_SLEEP>>),
      Call("mc", ZeroSpeeds)>>
    \o (IF x # 0
        THEN <<Call("mc", <<90, 0, 0, 0>>), Call("sleep", <<MANEUVER_SLEEP>>)>>
        ELSE <<>>)
    \o <<Call("mc", ZeroSpeeds)>>

run_motors_time(x, y) == MANEUVER_SLEEP + (IF x # 0 THEN MANEUVER_SLEEP ELSE 0)

(***************************************************************************)
(* main_loop, lines 252-274: a navigation frame.                           *)
(***************************************************************************)
ProcessNav ==
    /\ pc = "process"
    /\ ~IsPing(line)
    /\ IsNavigation(line)
    /\ nav' = <<DecodeX(line), DecodeY(line)>>
    /\ calls' = run_motors(DecodeX(line), DecodeY(line))
    /\ speeds' = ZeroSpeeds
    /\ elapsed' =
          Min(ElapsedCap, elapsed + run_motors_time(DecodeX(line), DecodeY(line)))
    /\ pc' = "read"
    /\ UNCHANGED <<radio, pressure_sensor, connected_to_bs, current_mission,
                   timer, created, line, scriptVars, pingVars, discVars>>

(***************************************************************************)
(* start_mission, lines 329-340, called from main_loop lines 276-281.  A   *)
(* failing Mission1 constructor raises into the handler of line 310.       *)
(***************************************************************************)
start_mission(mission) ==
    IF mission = 0
    THEN \/ /\ current_mission' = created + 1
            /\ created' = created + 1
            /\ timer' = 0
            /\ calls' = <<Call("Mission1", <<>>)>>
            /\ pc' = "read"
            /\ UNCHANGED radio
         \/ /\ RadioException(<<Call("Mission1", <<>>)>>)
            /\ UNCHANGED <<current_mission, created, timer>>
    ELSE /\ calls' = <<>>
         /\ pc' = "read"
         /\ UNCHANGED <<radio, current_mission, created, timer>>

ProcessMission ==
    /\ pc = "process"
    /\ ~IsPing(line)
    /\ ~IsNavigation(line)
    /\ start_mission(DecodeMission(line))
    /\ UNCHANGED <<pressure_sensor, connected_to_bs, elapsed, speeds, line,
                   nav, scriptVars, pingVars, discVars>>

(***************************************************************************)
(* main_loop, lines 317-327, with abort_mission, lines 351-355: the        *)
(* mission section and the sleep that ends an iteration.  An exception of  *)
(* the mission's loop() or abort_loop() is caught nowhere: it ends         *)
(* main_loop.                                                              *)
(***************************************************************************)
abort_mission == <<Call("abort_loop", <<>>)>>

MissionStep ==
    /\ pc = "mission"
    /\ IF current_mission # None
       THEN \/ /\ calls' = <<Call("loop", <<>>)>>
               /\ pc' = "dead"
               /\ UNCHANGED <<timer, current_mission>>
            \/ /\ timer' = timer + 1
               /\ IF ExceedsBudget(timer + 1)
                  THEN /\ current_mission' = None
                       /\ calls' = <<Call("loop", <<>>)>> \o abort_mission
                       /\ pc' \in {"check", "dead"}
                  ELSE /\ calls' = <<Call("loop", <<>>)>>
                       /\ pc' = "check"
                       /\ UNCHANGED current_mission
       ELSE /\ calls' = <<>>
            /\ pc' = "check"
            /\ UNCHANGED <<timer, current_mission>>
    /\ UNCHANGED <<radio, pressure_sensor, connected_to_bs, elapsed, created,
                   speeds, line, nav, scriptVars, pingVars, discVars>>

(***************************************************************************)
(* One second passes.                                                      *)
(***************************************************************************)
Tick ==
    /\ elapsed < ElapsedCap
    /\ elapsed' = elapsed + 1
    /\ UNCHANGED <<pc, radio, pressure_sensor, connected_to_bs,
                   current_mission, timer, created, speeds, line, nav, calls,
                   scriptVars, pingVars, discVars>>

(***************************************************************************)
(* The main loop on its own, as auv.py runs it.                            *)
(***************************************************************************)
MainStep ==
    \/ CheckConnection
    \/ Reconnect
    \/ EnterSession
    \/ Transmit
    \/ ProcessPing
    \/ ProcessNav
    \/ ProcessMission
    \/ MissionStep

Next ==
    \/ MainStep
    \/ Read
    \/ Tick

Spec == Init /\ [][Next]_vars

(***************************************************************************)
(* Scripted input: the base station's commands are read in script order;   *)
(* "none" is a read that returns nothing, which ends a read cycle.         *)
(***************************************************************************)
ReadScript ==
    /\ pc = "read"
    /\ IF sidx <= Len(script)
       THEN /\ ReadResult(script[sidx])
            /\ sidx' = sidx + 1
       ELSE /\ ReadResult(NoCmd)
            /\ UNCHANGED sidx
    /\ UNCHANGED <<pressure_sensor, connected_to_bs, elapsed, current_mission,
                   timer, created, speeds, nav, script, pingVars, discVars>>

(***************************************************************************)
(* The end-to-end scenario [ping, navigation(10, -30), ping], one frame    *)
(* per read cycle.  The base station and the loop are prompt: outside the  *)
(* program's own sleeps, time never runs past the connection timeout.      *)
(***************************************************************************)
Scenario ==
    <<PingCmd, NoCmd, NavCmd(10, 0 - 30), NoCmd, PingCmd, NoCmd>>

PromptTick ==
    /\ elapsed < CONNECTION_TIMEOUT
    /\ Tick

ScenarioInit ==
    /\ MainInit
    /\ script = Scenario
    /\ sidx = 1
    /\ PingIdle
    /\ DiscoveryIdle

ScenarioNext ==
    \/ CheckConnection
    \/ Reconnect
    \/ EnterSession
    \/ Transmit
    \/ ReadScript
    \/ ProcessPing
    \/ ProcessNav
    \/ MissionStep
    \/ PromptTick

SpecScenario == ScenarioInit /\ [][ScenarioNext]_vars

(***************************************************************************)
(* The navigation codec on its own: the main loop has sent its heartbeat   *)
(* and is about to read; one navigation frame, built from any (x, y) of    *)
(* the wire format's ranges, is read and decoded.                          *)
(***************************************************************************)
NavXMax == 127
NavYMax == 255

CodecInit ==
    /\ pc = "read"
    /\ radio = "Open"
    /\ pressure_sensor \in BOOLEAN
    /\ connected_to_bs = FALSE
    /\ elapsed = ElapsedCap
    /\ current_mission = None
    /\ timer = 0
    /\ created = 0
    /\ speeds = ZeroSpeeds
    /\ line = NoLine
    /\ nav = <<0, 0>>
    /\ calls = <<Heartbeat>>
    /\ \E x \in 0..NavXMax, y \in (0 - NavYMax)..NavYMax :
          script = <<NavCmd(x, y)>>
    /\ sidx = 1
    /\ PingIdle
    /\ DiscoveryIdle

CodecNext ==
    \/ ReadScript
    \/ ProcessNav

SpecCodec == CodecInit /\ [][CodecNext]_vars

(***************************************************************************)
(* The depth telemetry on its own: the AUV is connected, has a pressure    *)
(* sensor and an open radio, and is about to transmit; the reading is any  *)
(* pressure from 900 mbar up, in steps of 0.25 mbar.  A reading whose      *)
(* depth lies exactly halfway between two tenths is left out: the source   *)
(* rounds it by the binary value of the float.                             *)
(***************************************************************************)
MaxQuarterMbar == 12000

DepthPressures ==
    {p \in {25 * k : k \in 3600..MaxQuarterMbar} :
        DepthMicro(p) % 100000 # 50000}

DepthInit ==
    /\ pc = "write"
    /\ radio = "Open"
    /\ pressure_sensor = TRUE
    /\ connected_to_bs = TRUE
    /\ elapsed \in 0..CONNECTION_TIMEOUT
    /\ current_mission = None
    /\ timer = 0
    /\ created = 0
    /\ speeds = TestSpeeds
    /\ line = NoLine
    /\ nav = <<0, 0>>
    /\ calls = <<Call("is_open", <<>>)>>
    /\ script = <<>>
    /\ sidx = 1
    /\ PingIdle
    /\ DiscoveryIdle

TransmitDepth == TransmitFrom(DepthPressures)

SpecDepth == DepthInit /\ [][TransmitDepth]_vars

(***************************************************************************)
(* AUV_Send_Ping.run, lines 24-54: the ping-sending thread.                *)
(***************************************************************************)
PingInitHardware ==
    /\ ppc = "unstarted"
    /\ \E ok \in BOOLEAN : pradio' = IF ok THEN "Open" ELSE "None"
    /\ ppc' = "wait"
    /\ UNCHANGED <<mainVars, scriptVars, discVars, radio_lock, ev, stop_all_threads>>

PingWake ==
    /\ ppc = "wait"
    /\ ppc' = IF ev THEN "done" ELSE "radio"
    /\ UNCHANGED <<mainVars, scriptVars, discVars, pradio, radio_lock, ev,
                   stop_all_threads>>

PingReconnect ==
    /\ ppc = "radio"
    /\ pradio = "None" \/ ~is_open(pradio)
    /\ \E ok \in BOOLEAN : pradio' = IF ok THEN "Open" ELSE pradio
    /\ ppc' = "wait"
    /\ UNCHANGED <<mainVars, scriptVars, discVars, radio_lock, ev, stop_all_threads>>

PingAcquire ==
    /\ ppc = "radio"
    /\ ~(pradio = "None" \/ ~is_open(pradio))
    /\ radio_lock = "free"
    /\ radio_lock' = "ping"
    /\ ppc' = "write"
    /\ UNCHANGED <<mainVars, scriptVars, discVars, pradio, ev, stop_all_threads>>

PingWrite ==
    /\ ppc = "write"
    /\ ppc' \in {"release", "dead"}
    /\ UNCHANGED <<mainVars, scriptVars, discVars, pradio, radio_lock, ev,
                   stop_all_threads>>

PingRelease ==
    /\ ppc = "release"
    /\ radio_lock' = "free"
    /\ ppc' = "wait"
    /\ UNCHANGED <<mainVars, scriptVars, discVars, pradio, ev, stop_all_threads>>

stop ==
    /\ ev = FALSE
    /\ ev' = TRUE
    /\ UNCHANGED <<mainVars, scriptVars, discVars, ppc, pradio, radio_lock,
                   stop_all_threads>>

PingStep ==
    \/ PingInitHardware
    \/ PingWake
    \/ PingReconnect
    \/ PingAcquire
    \/ PingWrite
    \/ PingRelease

(***************************************************************************)
(* The main loop and the ping-sending thread side by side.                 *)
(***************************************************************************)
ThreadsNext ==
    \/ Next
    \/ PingStep
    \/ stop

SpecThreads == Init /\ [][ThreadsNext]_vars

(***************************************************************************)
(* global_vars.connect_to_radio, lines 24-30.  constants.RADIO_PATHS is an *)
(* ordered list of candidates; which of them open is the environment's     *)
(* choice.  The function has no global statement, so the name radio it     *)
(* assigns is local to the call; the loop has no break; on return the      *)
(* local name is dropped.                                                  *)
(***************************************************************************)
NumRadioPaths == 5
RADIO_PATHS == 1..NumRadioPaths

DiscoveryInit ==
    /\ MainInit
    /\ script = <<>>
    /\ sidx = 1
    /\ PingIdle
    /\ gv_radio = None
    /\ local_radio = None
    /\ rp = 1
    /\ openable \in SUBSET RADIO_PATHS
    /\ tried = <<>>

\* One pass of the for loop: Radio(rp['path']) succeeds and is bound to the
\* local name, or raises and the bare except prints a warning.
TryRadioPath ==
    /\ rp \in RADIO_PATHS
    /\ tried' = Append(tried, rp)
    /\ local_radio' = IF rp \in openable THEN rp ELSE local_radio
    /\ rp' = rp + 1
    /\ UNCHANGED <<mainVars, scriptVars, pingVars, gv_radio, openable>>

\* The list is exhausted: the function returns and its local is gone.
connect_to_radio_return ==
    /\ rp = NumRadioPaths + 1
    /\ rp' = NumRadioPaths + 2
    /\ local_radio' = None
    /\ UNCHANGED <<mainVars, scriptVars, pingVars, gv_radio, openable, tried>>

connect_to_radio ==
    \/ TryRadioPath
    \/ connect_to_radio_return

SpecDiscovery == DiscoveryInit /\ [][connect_to_radio]_vars

(***************************************************************************)
(* The process-wide stop request: an operator sets                         *)
(* global_vars.stop_all_threads.  No code of the main loop or of the ping  *)
(* thread reads it.                                                        *)
(***************************************************************************)
RequestStopAll ==
    /\ stop_all_threads = FALSE
    /\ stop_all_threads' = TRUE
    /\ UNCHANGED <<mainVars, scriptVars, discVars, ppc, pradio, radio_lock, ev>>

StopNext ==
    \/ ThreadsNext
    \/ RequestStopAll

SpecStop == Init /\ [][StopNext]_vars

(***************************************************************************)
(*                             Properties                                  *)
(***************************************************************************)
CountCalls(seq, c) == Cardinality({i \in DOMAIN seq : seq[i] = c})
CountOp(seq, op) == Cardinality({i \in DOMAIN seq : seq[i].op = op})

\* A step of the main loop that leaves position p.
Leaves(p) == pc = p /\ pc' # p

\* The connection check of an iteration finds the connection timed out.
LossTick == Leaves("check") /\ connected_to_bs /\ elapsed > CONNECTION_TIMEOUT

(***************************************************************************)
(* C1 (as stated): at the connection-loss tick the motors are commanded to *)
(* zero exactly once, the radio link is flushed, and connected becomes     *)
(* false; a later connection check that finds the AUV disconnected repeats *)
(* none of these.                                                          *)
(***************************************************************************)
C1_LossAlwaysFlushes ==
    [][/\ LossTick =>
            /\ CountCalls(calls', Call("mc", ZeroSpeeds)) = 1
            /\ CountOp(calls', "mc") = 1
            /\ speeds' = ZeroSpeeds
            /\ CountOp(calls', "flush") = 1
            /\ connected_to_bs' = FALSE
       /\ (Leaves("check") /\ ~connected_to_bs) =>
            /\ calls' = <<>>
            /\ speeds' = speeds
            /\ connected_to_bs' = FALSE]_vars

(***************************************************************************)
(* C1 (amended): at the connection-loss tick the motors are commanded to   *)
(* zero exactly once, the radio link is flushed exactly when a radio       *)
(* handle exists (no flush when the radio is None), and connected becomes  *)
(* false; a later connection check that finds the AUV disconnected repeats *)
(* none of these.                                                          *)
(***************************************************************************)
C1_LossZeroesAndFlushes ==
    [][/\ LossTick =>
            /\ CountCalls(calls', Call("mc", ZeroSpeeds)) = 1
            /\ CountOp(calls', "mc") = 1
            /\ speeds' = ZeroSpeeds
            /\ CountOp(calls', "flush") = (IF radio = "None" THEN 0 ELSE 1)
            /\ connected_to_bs' = FALSE
       /\ (Leaves("check") /\ ~connected_to_bs) =>
            /\ calls' = <<>>
            /\ speeds' = speeds
            /\ connected_to_bs' = FALSE]_vars

\* The connection has just been declared lost with a radio handle present:
\* one zero command and one flush have been issued.
C1_Witness ==
    /\ pc = "link"
    /\ radio = "Open"
    /\ ~connected_to_bs
    /\ speeds = ZeroSpeeds
    /\ calls = <<Call("mc", ZeroSpeeds), Call("flush", <<>>)>>

(***************************************************************************)
(* C2: connected is true right after a ping frame is processed and false   *)
(* right after a connection check that finds the timeout exceeded; it      *)
(* becomes true only by processing a ping frame and becomes false only at  *)
(* a connection check with now - last_ping_at > CONNECTION_TIMEOUT.        *)
(***************************************************************************)
C2_ConnectedFollowsPings ==
    [][/\ (Leaves("process") /\ line = PING_FRAME) => connected_to_bs'
       /\ (Leaves("check") /\ elapsed > CONNECTION_TIMEOUT) => ~connected_to_bs'
       /\ (~connected_to_bs /\ connected_to_bs') =>
            (Leaves("process") /\ line = PING_FRAME /\ elapsed' = 0)
       /\ (connected_to_bs /\ ~connected_to_bs') =>
            (Leaves("check") /\ elapsed > CONNECTION_TIMEOUT)]_vars

\* A ping made the AUV connected, and a later check declared the loss.
C2_Witness ==
    /\ pc = "link"
    /\ ~connected_to_bs
    /\ elapsed > CONNECTION_TIMEOUT
    /\ calls # <<>>
    /\ calls[1] = Call("mc", ZeroSpeeds)

(***************************************************************************)
(* C3 (as stated): a start request received while a mission is Running     *)
(* leaves the current mission instance and its tick counter unchanged.     *)
(***************************************************************************)
C3_StartWhileRunningRejected ==
    [][(/\ Leaves("process")
        /\ line # PING_FRAME
        /\ ~IsNavigation(line)
        /\ current_mission # None) =>
            /\ current_mission' = current_mission
            /\ timer' = timer]_vars

(***************************************************************************)
(* C4: the mission step whose tick takes the tick count over the budget    *)
(* MAX_TIME / TICK_INTERVAL / 7 calls the mission's abort hook exactly     *)
(* once and leaves no current mission; no other step aborts, a mission     *)
(* within its budget stays current, and without a current mission the      *)
(* mission section steps nothing.                                          *)
(***************************************************************************)
OverBudget(t) == t * 7 * THREAD_SLEEP_DELAY_MS > MAX_TIME * 1000

C4_AbortOnceOverBudget ==
    [][/\ (Leaves("mission") /\ current_mission # None /\ timer' = timer + 1) =>
            IF OverBudget(timer')
            THEN /\ CountOp(calls', "abort_loop") = 1
                 /\ CountOp(calls', "loop") = 1
                 /\ current_mission' = None
            ELSE /\ CountOp(calls', "abort_loop") = 0
                 /\ current_mission' = current_mission
       /\ (Leaves("mission") /\ current_mission = None) =>
            /\ calls' = <<>>
            /\ current_mission' = None
            /\ timer' = timer
       /\ (calls' # calls /\ CountOp(calls', "abort_loop") > 0) =>
            (Leaves("mission") /\ OverBudget(timer'))]_vars

\* Mission 0 was started, its ticks went over the budget and it was aborted.
C4_Witness ==
    /\ pc = "check"
    /\ created > 0
    /\ current_mission = None
    /\ OverBudget(timer)
    /\ calls = <<Call("loop", <<>>), Call("abort_loop", <<>>)>>

(***************************************************************************)
(* C5 (as stated): with [ping, navigation(10, -30), ping] delivered one    *)
(* frame per read cycle, the AUV is connected after the first ping, a      *)
(* turn-then-forward maneuver follows the navigation frame, and the AUV is *)
(* still connected when the third ping is processed, which therefore does  *)
(* not log "connection verified" again.                                    *)
(***************************************************************************)
TurnThenForward(seq) ==
    \E i, j \in DOMAIN seq :
        /\ i < j
        /\ seq[i] = Call("mc", <<0, 0 - 90, 0, 0>>)
        /\ seq[j] = Call("mc", <<90, 0, 0, 0>>)

C5_ScenarioStaysConnected ==
    script = Scenario =>
        /\ (sidx = 2 /\ pc = "read") => connected_to_bs
        /\ (sidx = 4 /\ pc = "read") =>
              (connected_to_bs /\ nav = <<10, 0 - 30>> /\ TurnThenForward(calls))
        /\ (sidx = 6 /\ pc = "process") => connected_to_bs
        /\ (sidx = 6 /\ pc = "read") => CountOp(calls, "log") = 0

(***************************************************************************)
(* C6 (as stated): a navigation frame built per the wire layout from x in  *)
(* [0, 127] and y in [-255, 255] is decoded by the receiver to exactly     *)
(* (x, y), sign included.                                                  *)
(***************************************************************************)
C6_NavRoundTrip ==
    (/\ Len(script) = 1
     /\ script[1][1] = "nav"
     /\ sidx = 2
     /\ pc = "read") => nav = <<script[1][2], script[1][3]>>

(***************************************************************************)
(* C7 (as stated): the radio channel is never used by two threads at the   *)
(* same time: the main loop is never inside radio.write or radio.read      *)
(* while the ping-sending thread is inside its radio.write.                *)
(***************************************************************************)
C7_RadioExclusive ==
    ~(pc \in {"write", "read"} /\ ppc = "write")

(***************************************************************************)
(* C8: an exception in the write/read-drain section closes the radio and   *)
(* leaves radio = None; the handle then stays None up to the next          *)
(* iteration's link step, which makes one attempt to open the radio; a     *)
(* failed attempt changes nothing and the loop goes on to the mission      *)
(* section, so that the attempt is made again on the next iteration; only  *)
(* such an attempt gives the loop a radio again.                           *)
(***************************************************************************)
C8_ExceptionDropsRadio ==
    [][/\ (pc \in {"write", "read", "process"} /\ pc' = "check") =>
            /\ radio' = "None"
            /\ calls'[Len(calls')] = Call("close", <<>>)
       /\ (Leaves("link") /\ radio = "None") =>
            /\ calls' = <<Call("open", <<>>)>>
            /\ pc' = "mission"
       /\ (radio = "None" /\ radio' # "None") => Leaves("link")
       /\ (radio = "None" /\ pc' # pc) =>
            pc' = (CASE pc = "check" -> "link"
                     [] pc = "link" -> "mission"
                     [] pc = "mission" -> IF current_mission = None
                                          THEN "check" ELSE pc'
                     [] OTHER -> "none")]_vars

\* The radio was dropped after a session and the attempt to open it failed.
C8_Witness ==
    /\ pc = "mission"
    /\ connected_to_bs
    /\ radio = "None"
    /\ calls = <<Call("open", <<>>)>>

(***************************************************************************)
(* C9 (as stated): no failure of a collaborator call ends the control      *)
(* loop.                                                                   *)
(***************************************************************************)
C9_LoopNeverEnds == pc # "dead"

(***************************************************************************)
(* C10 (as stated): every iteration that ends while a mission is Running   *)
(* has called the mission's step function exactly once and has raised the  *)
(* tick counter by one.                                                    *)
(***************************************************************************)
C10_StepEveryIteration ==
    [][(pc # "check" /\ pc' = "check" /\ current_mission # None) =>
            /\ CountOp(calls', "loop") = 1
            /\ timer' = timer + 1]_vars

(***************************************************************************)
(* C11: while the AUV is disconnected no depth frame is written (every     *)
(* radio write of the main loop is then the heartbeat byte and the         *)
(* pressure sensor is not read), while heartbeats go on whatever the       *)
(* connected flag is: every iteration that finds the radio open goes to    *)
(* the write section, whose first call writes the heartbeat, and every     *)
(* wake-up of the ping thread that finds its radio open goes on to write   *)
(* PING.                                                                   *)
(***************************************************************************)
OnlyHeartbeats(seq) ==
    \A i \in DOMAIN seq :
        /\ seq[i].op = "write" => seq[i].arg = <<HEARTBEAT, 1>>
        /\ seq[i].op # "sensor"

C11_HeartbeatsNotTelemetry ==
    [][/\ (Leaves("link") /\ radio = "Open") => pc' = "write"
       /\ Leaves("write") => calls'[1] = Call("write", <<HEARTBEAT, 1>>)
       /\ (~connected_to_bs /\ calls' # calls) => OnlyHeartbeats(calls')
       /\ (ppc = "radio" /\ ppc' # ppc /\ pradio = "Open") => ppc' = "write"
       /\ (ppc = "write" /\ ppc' # ppc) => ppc' \in {"release", "dead"}]_vars

\* Disconnected, with a pressure sensor: the main loop has written only its
\* heartbeat, and the ping thread has written PING.
C11_Witness ==
    /\ ~connected_to_bs
    /\ pressure_sensor
    /\ radio = "Open"
    /\ pc = "read"
    /\ calls = <<Call("write", <<HEARTBEAT, 1>>)>>
    /\ ppc = "release"

(***************************************************************************)
(* C12 (as stated): once stop is requested a unit starts no further radio  *)
(* I/O: the main loop enters no radio write or read once                   *)
(* stop_all_threads is set, and the ping thread, once _ev is set, leaves   *)
(* its wait only to exit.                                                  *)
(***************************************************************************)
C12_StopEndsRadioIO ==
    [][/\ (stop_all_threads /\ pc' # pc) => pc' \notin {"write", "read"}
       /\ (ev /\ ppc = "wait" /\ ppc' # ppc) => ppc' = "done"]_vars

(***************************************************************************)
(* C13 (as stated): processing a ping frame changes only the connection    *)
(* state: no motor command is issued, and the motor speeds, the current    *)
(* mission and its tick counter are unchanged, whether the ping finds the  *)
(* AUV disconnected or connected.                                          *)
(***************************************************************************)
C13_PingOnlyLiveness ==
    [][(Leaves("process") /\ line = PING_FRAME) =>
            /\ CountOp(calls', "mc") = 0
            /\ speeds' = speeds
            /\ current_mission' = current_mission
            /\ timer' = timer]_vars

(***************************************************************************)
(* C14 (as stated): a depth frame written by the telemetry path has the    *)
(* DEPTH header in its top bits, and its two 4-bit fields hold the integer *)
(* part (below 16) and the tenths digit (0-9, truncated or rounded) of     *)
(* max(0, (pressure - 1013.25) / 1000 * 10.2).                             *)
(***************************************************************************)
DepthOf(p) == IF p < 101325 THEN 0 ELSE (p - 101325) * 102
FieldsOk(p, f) ==
    /\ f \div 2048 = DEPTH_DATA
    /\ DepthOf(p) \div 1000000 < 16
    /\ (f \div 16) % 16 = DepthOf(p) \div 1000000
    /\ f % 16 \in 0..9
    /\ f % 16 \in {(DepthOf(p) % 1000000) \div 100000,
                   ((DepthOf(p) % 1000000) + 50000) \div 100000}

C14_DepthFrameFields ==
    \A i \in DOMAIN calls :
        (calls[i].op = "write" /\ calls[i].arg[2] = 2) =>
            FieldsOk(calls[i - 1].arg[1], calls[i].arg[1])

(***************************************************************************)
(* C15: the handler of a link I/O failure closes and drops the radio and   *)
(* touches nothing else: the current mission, its tick counter, the motor  *)
(* speeds and the connected flag are unchanged and no motor command is     *)
(* issued.  Outside the processing of a received frame, a motor command    *)
(* is issued only by the connection-timeout path, and it is all-zero.      *)
(***************************************************************************)
C15_LinkFailureTouchesOnlyRadio ==
    [][/\ (pc \in {"write", "read", "process"} /\ pc' = "check") =>
            /\ radio' = "None"
            /\ current_mission' = current_mission
            /\ timer' = timer
            /\ speeds' = speeds
            /\ connected_to_bs' = connected_to_bs
            /\ CountOp(calls', "mc") = 0
       /\ (calls' # calls /\ CountOp(calls', "mc") > 0 /\ pc # "process") =>
            /\ Leaves("check")
            /\ connected_to_bs
            /\ elapsed > CONNECTION_TIMEOUT
            /\ speeds' = ZeroSpeeds]_vars

\* A read or write failed while a mission was running with the motors at
\* the test speeds: the radio is gone, mission and motors are as before.
C15_Witness ==
    /\ pc = "check"
    /\ radio = "None"
    /\ current_mission # None
    /\ timer > 0
    /\ speeds = TestSpeeds
    /\ calls # <<>>
    /\ calls[Len(calls)] = Call("close", <<>>)

(***************************************************************************)
(* C16: a mission command frame (not a ping, navigation bit clear) whose   *)
(* mission id in bits 0-1 is not 0 is ignored: no mission is constructed,  *)
(* the current mission and its tick counter are unchanged, no collaborator *)
(* is called, the radio is kept and the loop goes on to read the next      *)
(* frame.                                                                  *)
(***************************************************************************)
C16_UnknownMissionIgnored ==
    [][(/\ Leaves("process")
        /\ line # PING_FRAME
        /\ (line \div 131072) % 2 = 0
        /\ line % 4 # 0) =>
            /\ created' = created
            /\ current_mission' = current_mission
            /\ timer' = timer
            /\ calls' = <<>>
            /\ radio' = radio
            /\ pc' = "read"]_vars

\* A frame with mission id 1 has been processed while a mission was running.
C16_Witness ==
    /\ pc = "read"
    /\ line = 1
    /\ current_mission # None
    /\ timer > 0
    /\ calls = <<>>

(***************************************************************************)
(* C17 (as stated): the ping thread holds radio_lock only around its       *)
(* write: once it has left the write, by release or by an error, or has    *)
(* ended, the lock is free.                                                *)
(***************************************************************************)
C17_LockReleased ==
    ppc \in {"unstarted", "wait", "radio", "done", "dead"} =>
        radio_lock # "ping"

\* The motor commands among a sequence of calls, in order.
IsMotorCall(c) == c.op = "mc"
MotorCmds(seq) == SelectSeq(seq, IsMotorCall)

\* A step that processes a navigation frame.
NavStep == Leaves("process") /\ line # PING_FRAME /\ (line \div 131072) % 2 = 1

\* The turn command for a decoded y: full speed in the direction of its sign.
TurnCmd(y) == <<0, IF y > 0 THEN 90 ELSE IF y < 0 THEN 0 - 90 ELSE 0, 0, 0>>
ForwardCmd == <<90, 0, 0, 0>>

(***************************************************************************)
(* C18 (as stated): every navigation command issues a turn command, then   *)
(* an all-zero command, then a forward command, then an all-zero command   *)
(* which is the last one, for every (x, y).  Stated here for the frames    *)
(* whose x the decoder reads back as sent (bit 11 clear), so that a        *)
(* violation is one of run_motors and not of the decoding.                 *)
(***************************************************************************)
C18_TurnStopForwardStop ==
    [][(NavStep /\ (line \div 2048) % 2 = 0) =>
        LET m == MotorCmds(calls')
        IN  \E i, j, k \in DOMAIN m :
                /\ i < j /\ j < k /\ k < Len(m)
                /\ m[i].arg = TurnCmd(nav'[2])
                /\ m[j].arg = ZeroSpeeds
                /\ m[k].arg = ForwardCmd
                /\ m[Len(m)].arg = ZeroSpeeds]_vars

(***************************************************************************)
(* C18 (amended): a navigation command issues stop, turn, stop, then the   *)
(* forward command only when the decoded x is not 0, then a final stop.    *)
(* The turn and the forward command are each held for the maneuver sleep;  *)
(* with x = 0 no command drives the forward motor at all.                  *)
(***************************************************************************)
C18_TurnStopForwardIfX ==
    [][NavStep =>
        LET m == MotorCmds(calls')
        IN  /\ Len(m) = IF nav'[1] # 0 THEN 5 ELSE 4
            /\ m[1].arg = ZeroSpeeds
            /\ m[2].arg = TurnCmd(nav'[2])
            /\ m[3].arg = ZeroSpeeds
            /\ nav'[1] # 0 => m[4].arg = ForwardCmd
            /\ m[Len(m)].arg = ZeroSpeeds
            /\ \A i \in DOMAIN m : nav'[1] = 0 => m[i].arg[1] = 0
            /\ CountOp(calls', "sleep") = IF nav'[1] # 0 THEN 2 ELSE 1
            /\ speeds' = ZeroSpeeds]_vars

\* A command with x = 0 and a negative y has been carried out: four motor
\* commands, none of them forward.
C18_Witness ==
    /\ pc = "read"
    /\ sidx = 2
    /\ script[1][1] = "nav" /\ script[1][2] = 0 /\ script[1][3] < 0
    /\ nav[1] = 0 /\ nav[2] < 0
    /\ Len(MotorCmds(calls)) = 4
    /\ MotorCmds(calls)[2].arg = <<0, 0 - 90, 0, 0>>

\* The first candidate, in list order, that opens.
FirstOpenable == CHOOSE i \in openable : \A j \in openable : i <= j

(***************************************************************************)
(* C19 (as stated): radio discovery opens the candidates in order and      *)
(* stops at the first that opens: no candidate after it is tried, the      *)
(* handle it holds is never replaced by a later one, and once discovery    *)
(* is over the shared handle global_vars.radio is that first link.         *)
(* Candidates that fail to open do not end the discovery.                  *)
(***************************************************************************)
C19_FirstOpenableIsShared ==
    /\ \A i \in DOMAIN tried : \A j \in openable : tried[i] <= j
    /\ (local_radio # None) => local_radio = FirstOpenable
    /\ (rp > NumRadioPaths /\ openable # {}) => gv_radio = FirstOpenable

\* A step that ends an iteration of the main loop: the sleep of line 327,
\* or the continue of the exception handler.
EndsIteration == pc # "check" /\ pc' = "check"

(***************************************************************************)
(* C20 (as stated): the connection-loss transition changes neither the     *)
(* current mission nor its tick counter, and an iteration that ends with   *)
(* a mission running while the AUV is disconnected or has no radio has     *)
(* stepped the mission once and counted the step.                          *)
(***************************************************************************)
C20_OfflineMissionStepped ==
    [][/\ LossTick =>
            /\ current_mission' = current_mission
            /\ timer' = timer
            /\ created' = created
       /\ (/\ EndsIteration
           /\ current_mission # None
           /\ ~connected_to_bs \/ radio = "None") =>
            /\ CountOp(calls', "loop") = 1
            /\ timer' = timer + 1]_vars

====
